---- MODULE Spec2Model ----
(***************************************************************************)
(* gh-sw: interactive branch switcher around `git for-each-ref` and        *)
(* `git switch`.  The repository's sources hold three variants of the      *)
(* program:                                                                *)
(*   "initial"  src/unnamed/part_000   (no deadline, switch status dropped)*)
(*   "ctx"      src/main.go:356-528    (deadline context, %(HEAD) marker)  *)
(*   "modes"    src/main.go:1-354      (local / remote / all modes)        *)
(* One run of the process is modelled; the variant is fixed at Init.       *)
(* Strings are sequences of one-character strings.                         *)
(***************************************************************************)
EXTENDS Integers, Sequences, FiniteSets, TLC

VARIABLES
    variant,        \* which of the three sources is running
    args,           \* os.Args[1:]
    refsHeads,      \* refs/heads of the repository, in the order git lists them
    refsRemotes,    \* refs/remotes of the repository (short names)
    head,           \* what HEAD is: a branch, detached, or unborn
    pc,             \* position of the process
    mode,           \* "none", "help", "direct", "local", "remote", "all"
    expired,        \* the context.WithTimeout deadline has passed
    branches,       \* local branch list returned by the listing
    remoteBranches, \* remote branch list returned by the listing
    current,        \* current branch as the program determined it
    options,        \* huh options handed to form.Run
    selected,       \* value the prompt stored
    switchArg,      \* argument of the `git switch` invocation
    switchRes,      \* error value returned by cmd.Run of `git switch`
    listCalls,      \* number of listing phases started
    listRes,        \* error value of the listing phase
    promptCalls,    \* number of form.Run invocations
    promptRes,      \* "none", "selected", "cancelled"
    switchCalls,    \* number of `git switch` invocations
    exitCode,       \* process exit status, -1 while running
    messages        \* kinds of text written by the program itself

vars == <<variant, args, refsHeads, refsRemotes, head, pc, mode, expired,
          branches, remoteBranches, current, options, selected, switchArg,
          switchRes, listCalls, listRes, promptCalls, promptRes, switchCalls,
          exitCode, messages>>

\* ---------------------------------------------------------------- bounds
MaxLocal == 2
MaxRemote == 2

\* ---------------------------------------------------------------- strings
\* The bytes that occur in the modelled strings, in ascending byte order.
Bytes == <<"\t", "\n", " ", "*", "-", "/", "A", "D", "E", "H",
           "a", "d", "e", "f", "g", "h", "i", "l", "m", "n", "o", "p", "r",
           "t", "v", "x">>

Ord(c) == CHOOSE i \in 1..Len(Bytes) : Bytes[i] = c

\* Go's string < : bytewise lexicographic order, a proper prefix is smaller.
RECURSIVE StrLess(_, _)
StrLess(a, b) ==
    IF b = <<>> THEN FALSE
    ELSE IF a = <<>> THEN TRUE
    ELSE IF Head(a) = Head(b) THEN StrLess(Tail(a), Tail(b))
    ELSE Ord(Head(a)) < Ord(Head(b))

IsSpace(c) == c \in {" ", "\t", "\n"}

RECURSIVE TrimLeft(_)
TrimLeft(s) == IF s # <<>> /\ IsSpace(Head(s)) THEN TrimLeft(Tail(s)) ELSE s

RECURSIVE TrimRight(_)
TrimRight(s) ==
    IF s # <<>> /\ IsSpace(s[Len(s)]) THEN TrimRight(SubSeq(s, 1, Len(s) - 1))
    ELSE s

TrimSpace(s) == TrimRight(TrimLeft(s))

\* strings.Index(s, c) for a one-byte separator, 0-based, -1 when absent.
Index(s, c) ==
    IF \E i \in 1..Len(s) : s[i] = c
    THEN (CHOOSE i \in 1..Len(s) : s[i] = c /\ \A j \in 1..(i - 1) : s[j] # c) - 1
    ELSE -1

Contains(s, c) == Index(s, c) # -1

HasSuffix(s, suf) ==
    /\ Len(s) >= Len(suf)
    /\ SubSeq(s, Len(s) - Len(suf) + 1, Len(s)) = suf

\* strings.Split(s, sep) for a one-byte separator: always at least one field.
RECURSIVE Split(_, _)
Split(s, sep) ==
    LET i == Index(s, sep)
    IN  IF i = -1 THEN <<s>>
        ELSE <<SubSeq(s, 1, i)>> \o Split(SubSeq(s, i + 2, Len(s)), sep)

\* Mutation: the listing is returned in the order git printed it.
Sort_unsorted(seq) == seq

\* slices.Sort on strings.
Sort(seq) == SortSeq(seq, StrLess)

\* ---------------------------------------------------------------- names
main_ == <<"m", "a", "i", "n">>
prod == <<"p", "r", "o", "d">>
f_x == <<"f", "/", "x">>
origin == <<"o", "r", "i", "g", "i", "n">>
HEAD == <<"H", "E", "A", "D">>
origin_main == origin \o <<"/">> \o main_
origin_prod == origin \o <<"/">> \o prod
origin_f_x == origin \o <<"/">> \o f_x
origin_HEAD == origin \o <<"/">> \o HEAD

flagHelp == <<"-", "-", "h", "e", "l", "p">>
flagH == <<"-", "h">>
flagAll == <<"-", "-", "a", "l", "l">>
flagA == <<"-", "a">>
flagRemote == <<"-", "-", "r", "e", "m", "o", "t", "e">>
flagR == <<"-", "r">>
dash == <<"-">>

LocalNames == {main_, prod, f_x}
RemoteNames == {origin_main, origin_prod, origin_f_x, origin_HEAD, origin}
ArgValues == {flagHelp, flagA, flagR, prod, dash}

\* Sequences without repetition over S, of length at most n.
DistinctSeqs(S, n) ==
    UNION {{q \in [1..k -> S] : \A i, j \in 1..k : i # j => q[i] # q[j]} : k \in 0..n}

\* ---------------------------------------------------------------- git
NoErr == [kind |-> "ok", code |-> 0]
ExitErr(c) == [kind |-> "exit", code |-> c]      \* *exec.ExitError, status c
KilledErr == [kind |-> "killed", code |-> -1]    \* *exec.ExitError, signalled
CtxErr == [kind |-> "ctx", code |-> 0]           \* context.DeadlineExceeded
StartErr == [kind |-> "start", code |-> 0]       \* e.g. git not on PATH
NoCurrentErr == [kind |-> "nocurrent", code |-> 0] \* fmt.Errorf in getBranches

GitExitCodes == {1, 128}

\* Results of a subprocess started with exec.Command.
CmdResults == {NoErr, StartErr} \cup {ExitErr(c) : c \in GitExitCodes}

\* Results of a subprocess started with exec.CommandContext: Start refuses
\* once the context is done, and a running child is killed at the deadline.
CtxCmdResults(isExpired) ==
    IF isExpired THEN {CtxErr} ELSE CmdResults \cup {KilledErr}

RECURSIVE Join(_)
Join(lines) ==
    IF lines = <<>> THEN <<>> ELSE Head(lines) \o <<"\n">> \o Join(Tail(lines))

\* git for-each-ref --format=%(refname:short) <prefix>
ForEachRef(refs) == Join(refs)

\* git for-each-ref --format=%(refname:short)\t%(HEAD) refs/heads
ForEachRefHead(refs, h) ==
    Join([i \in 1..Len(refs) |->
            refs[i] \o <<"\t">> \o
            (IF h.kind = "branch" /\ h.name = refs[i] THEN <<"*">> ELSE <<" ">>)])

\* git branch --show-current
ShowCurrent(h) == (IF h.kind = "detached" THEN <<>> ELSE h.name) \o <<"\n">>

\* git rev-parse --abbrev-ref HEAD: fails while HEAD is unborn.
RevParseHead(h) ==
    IF h.kind = "unborn" THEN [err |-> ExitErr(128), out |-> <<>>]
    ELSE [err |-> NoErr,
          out |-> (IF h.kind = "detached" THEN HEAD ELSE h.name) \o <<"\n">>]

\* ---------------------------------------------------------------- parsing
NonEmptyLines(lines) == SelectSeq(lines, LAMBDA l : l # <<>>)

\* main.go getLocalBranches, on the captured standard output.
getLocalBranches(output) ==
    Sort(NonEmptyLines(Split(TrimSpace(output), "\n")))

\* Mutation: the "/HEAD" suffix test is missing.
IsRemoteBranchLine_keepHead(line) ==
    /\ line # <<>>
    /\ Contains(line, "/")

IsRemoteBranchLine(line) ==
    /\ line # <<>>
    /\ Contains(line, "/")
    /\ ~HasSuffix(line, <<"/", "H", "E", "A", "D">>)

\* main.go getRemoteBranches, on the captured standard output.
getRemoteBranches(output) ==
    Sort(SelectSeq(Split(TrimSpace(output), "\n"), IsRemoteBranchLine))

\* main.go getCurrentBranch: "" stands for the ignored error.
getCurrentBranch(h) ==
    LET r == RevParseHead(h)
    IN  IF r.err # NoErr THEN <<>> ELSE TrimSpace(r.out)

\* The loop of the marker-based getBranches: the last line marked "*" wins.
RECURSIVE MarkedCurrent(_, _)
MarkedCurrent(lines, cur) ==
    IF lines = <<>> THEN cur
    ELSE LET fields == Split(Head(lines), "\t")
         IN  MarkedCurrent(Tail(lines),
                 IF Len(fields) > 1 /\ fields[2] = <<"*">> THEN fields[1] ELSE cur)

\* main.go (deadline variant) getBranches, on the captured standard output.
Ctx_getBranches(output) ==
    LET lines == NonEmptyLines(Split(TrimSpace(output), "\n"))
        names == [i \in 1..Len(lines) |-> Split(lines[i], "\t")[1]]
        cur == MarkedCurrent(lines, <<>>)
    IN  IF cur = <<>>
        THEN [branches |-> <<>>, current |-> <<>>, err |-> NoCurrentErr]
        ELSE [branches |-> Sort(names), current |-> cur, err |-> NoErr]

\* part_000 getBranches, on the two captured outputs.
Initial_getBranches(currentOut, listOut) ==
    [branches |-> Sort(NonEmptyLines(Split(TrimSpace(listOut), "\n"))),
     current |-> TrimSpace(currentOut),
     err |-> NoErr]

\* ---------------------------------------------------------------- options
Option(label, value) == [label |-> label, value |-> value]
PlainOptions(names) == [i \in 1..Len(names) |-> Option(names[i], names[i])]
\* Mutation: the `branch != current` test is missing.
Others_keepCurrent(names, cur) == names

Others(names, cur) == SelectSeq(names, LAMBDA b : b # cur)

\* "* "+current, rendered gray, as the first option when current is known.
PinnedOption(cur) ==
    IF cur # <<>> THEN <<Option(<<"*", " ">> \o cur, cur)>> ELSE <<>>

\* Mutation: every listed branch becomes an option.
ExcludingOptions_noFilter(names, cur) == PlainOptions(names)

\* part_000:82-90 and main.go:459-466
ExcludingOptions(names, cur) == PlainOptions(Others(names, cur))

\* main.go:151-161
LocalOptions(names, cur) == PinnedOption(cur) \o PlainOptions(Others(names, cur))

\* main.go:198-206
RemoteOptions(remotes, cur) == PinnedOption(cur) \o PlainOptions(remotes)

\* main.go:248-262
AllOptions(locals, remotes, cur) ==
    PinnedOption(cur) \o PlainOptions(Others(locals, cur)) \o PlainOptions(remotes)

\* Mutation: the prefix is cut at the last '/' instead of the first.
StripRemote_lastSlash(sel) ==
    IF Contains(sel, "/")
    THEN LET idx == CHOOSE i \in 1..Len(sel) :
                        sel[i] = "/" /\ \A j \in (i + 1)..Len(sel) : sel[j] # "/"
         IN  SubSeq(sel, idx + 1, Len(sel))
    ELSE sel

\* main.go:224-227
StripRemote(sel) ==
    LET idx == Index(sel, "/")
    IN  IF idx # -1 THEN SubSeq(sel, idx + 2, Len(sel)) ELSE sel

\* main.go:280-285
StripAll(sel) ==
    IF Contains(sel, "/")
    THEN LET idx == Index(sel, "/")
         IN  IF idx # -1 THEN SubSeq(sel, idx + 2, Len(sel)) ELSE sel
    ELSE sel

\* Mutation: the status is taken from the error's code in every case.
ExitStatusOf_codeOnly(err) == err.code % 256

\* exitWithStatus: an ExitError's code becomes the status (os.Exit keeps
\* the low 8 bits); anything else is printed and the status is 1.
ExitStatusOf(err) ==
    IF err.kind \in {"exit", "killed"} THEN err.code % 256 ELSE 1

ExitMessageOf(err) ==
    IF err.kind \in {"exit", "killed"} THEN {} ELSE {"error"}

\* ---------------------------------------------------------------- state
Variants == {"initial", "ctx", "modes"}

Heads(refs) ==
    IF refs = <<>> THEN {[kind |-> "unborn", name |-> main_]}
    ELSE {[kind |-> "branch", name |-> refs[i]] : i \in 1..Len(refs)}
         \cup {[kind |-> "detached", name |-> <<>>]}

Init ==
    /\ variant \in Variants
    /\ args \in {<<>>} \cup {<<a>> : a \in ArgValues}
    /\ refsHeads \in DistinctSeqs(LocalNames, MaxLocal)
    /\ refsRemotes \in DistinctSeqs(RemoteNames, MaxRemote)
    /\ head \in Heads(refsHeads)
    /\ pc = "main"
    /\ mode = "none"
    /\ expired = FALSE
    /\ branches = <<>>
    /\ remoteBranches = <<>>
    /\ current = <<>>
    /\ options = <<>>
    /\ selected = <<>>
    /\ switchArg = <<>>
    /\ switchRes = NoErr
    /\ listCalls = 0
    /\ listRes = NoErr
    /\ promptCalls = 0
    /\ promptRes = "none"
    /\ switchCalls = 0
    /\ exitCode = -1
    /\ messages = {}

repo == <<variant, args, refsHeads, refsRemotes, head>>
listing == <<branches, remoteBranches, current, options, listCalls, listRes, promptCalls>>
prompting == <<selected, promptRes>>
switching == <<switchArg, switchCalls>>

\* The process ends with the given status after writing the given texts.
Exit(status, texts) ==
    /\ pc' = "done"
    /\ exitCode' = status
    /\ messages' = messages \cup texts

\* The call of switchBranch(branch) is reached.
CallSwitch(branch) ==
    /\ pc' = "switch"
    /\ switchArg' = branch
    /\ switchCalls' = switchCalls + 1
    /\ UNCHANGED <<exitCode, messages>>

\* ---------------------------------------------------------------- main
\* part_000:16-23
Initial_main ==
    /\ pc = "main" /\ variant = "initial"
    /\ IF Len(args) > 0
       THEN mode' = "direct" /\ CallSwitch(args[1])
       ELSE /\ mode' = "local" /\ pc' = "fetch"
            /\ UNCHANGED <<switching, exitCode, messages>>
    /\ UNCHANGED <<repo, listing, prompting, expired, switchRes>>

\* main.go:394-411
Ctx_main ==
    /\ pc = "main" /\ variant = "ctx"
    /\ IF Len(args) > 0
       THEN IF args[1] = flagHelp \/ args[1] = flagH
            THEN /\ mode' = "help" /\ Exit(0, {"help"})
                 /\ UNCHANGED switching
            ELSE mode' = "direct" /\ CallSwitch(args[1])
       ELSE /\ mode' = "local" /\ pc' = "fetch"
            /\ UNCHANGED <<switching, exitCode, messages>>
    /\ UNCHANGED <<repo, listing, prompting, expired, switchRes>>

\* main.go:42-66
Modes_main ==
    /\ pc = "main" /\ variant = "modes"
    /\ IF Len(args) > 0
       THEN IF args[1] = flagHelp \/ args[1] = flagH
            THEN /\ mode' = "help" /\ Exit(0, {"help"})
                 /\ UNCHANGED switching
            ELSE IF args[1] = flagAll \/ args[1] = flagA
            THEN /\ mode' = "all" /\ pc' = "fetch"
                 /\ UNCHANGED <<switching, exitCode, messages>>
            ELSE IF args[1] = flagRemote \/ args[1] = flagR
            THEN /\ mode' = "remote" /\ pc' = "fetch"
                 /\ UNCHANGED <<switching, exitCode, messages>>
            ELSE mode' = "direct" /\ CallSwitch(args[1])
       ELSE /\ mode' = "local" /\ pc' = "fetch"
            /\ UNCHANGED <<switching, exitCode, messages>>
    /\ UNCHANGED <<repo, listing, prompting, expired, switchRes>>

\* The deadline of context.WithTimeout(defaultTimeout) passes.
DeadlineExpires ==
    /\ variant \in {"ctx", "modes"}
    /\ pc \in {"fetch", "prompt", "switch"}
    /\ ~expired
    /\ expired' = TRUE
    /\ UNCHANGED <<repo, pc, mode, listing, prompting, switching, switchRes,
                   exitCode, messages>>

\* ---------------------------------------------------------------- listing
\* The listing phase ran once and returned (bs, rbs, err).
Listed(err, bs, rbs) ==
    /\ listCalls' = listCalls + 1
    /\ listRes' = err
    /\ branches' = bs
    /\ remoteBranches' = rbs
    /\ expired' = (expired \/ err = KilledErr)

\* The program stops between the listing and form.Run.
StopBeforePrompt(status, texts) ==
    /\ Exit(status, texts)
    /\ UNCHANGED <<current, options, promptCalls>>

\* form.Run() is called with opts.
CallPrompt(cur, opts) ==
    /\ current' = cur
    /\ options' = opts
    /\ promptCalls' = promptCalls + 1
    /\ pc' = "prompt"
    /\ UNCHANGED <<exitCode, messages>>

\* part_000:62-107, up to the call of form.Run
Initial_interactiveSwitch ==
    /\ pc = "fetch" /\ variant = "initial"
    /\ \E r1 \in CmdResults, r2 \in CmdResults :
         LET err == IF r1 # NoErr THEN r1 ELSE r2
             got == Initial_getBranches(ShowCurrent(head), ForEachRef(refsHeads))
             opts == ExcludingOptions(got.branches, got.current)
         IN  IF err # NoErr
             THEN Listed(err, <<>>, <<>>) /\ StopBeforePrompt(1, {})
             ELSE /\ Listed(NoErr, got.branches, <<>>)
                  /\ IF Len(got.branches) = 0
                     THEN StopBeforePrompt(0, {})
                     ELSE IF Len(opts) = 0
                     THEN /\ Exit(0, {"onlyone"})
                          /\ current' = got.current
                          /\ UNCHANGED <<options, promptCalls>>
                     ELSE CallPrompt(got.current, opts)
    /\ UNCHANGED <<repo, mode, prompting, switching, switchRes>>

\* main.go:448-485, up to the call of form.Run
Ctx_interactiveSwitch ==
    /\ pc = "fetch" /\ variant = "ctx"
    /\ \E r \in CtxCmdResults(expired) :
         LET got == Ctx_getBranches(ForEachRefHead(refsHeads, head))
             err == IF r # NoErr THEN r ELSE got.err
             opts == ExcludingOptions(got.branches, got.current)
         IN  IF err # NoErr
             THEN /\ Listed(err, <<>>, <<>>)
                  /\ StopBeforePrompt(ExitStatusOf(err), ExitMessageOf(err))
             ELSE /\ Listed(NoErr, got.branches, <<>>)
                  /\ IF Len(got.branches) = 0
                     THEN StopBeforePrompt(0, {})
                     ELSE IF Len(opts) = 0
                     THEN /\ Exit(0, {"onlyone"})
                          /\ current' = got.current
                          /\ UNCHANGED <<options, promptCalls>>
                     ELSE CallPrompt(got.current, opts)
    /\ UNCHANGED <<repo, mode, prompting, switching, switchRes>>

\* main.go:137-173, up to the call of form.Run
interactiveSwitchLocal ==
    /\ pc = "fetch" /\ variant = "modes" /\ mode = "local"
    /\ \E r \in CtxCmdResults(expired) :
         LET bs == getLocalBranches(ForEachRef(refsHeads))
             cur == getCurrentBranch(head)
         IN  IF r # NoErr
             THEN /\ Listed(r, <<>>, <<>>)
                  /\ StopBeforePrompt(ExitStatusOf(r), ExitMessageOf(r))
             ELSE /\ Listed(NoErr, bs, <<>>)
                  /\ IF Len(bs) = 0
                     THEN StopBeforePrompt(0, {"nolocal"})
                     ELSE CallPrompt(cur, LocalOptions(bs, cur))
    /\ UNCHANGED <<repo, mode, prompting, switching, switchRes>>

\* main.go:184-218, up to the call of form.Run
interactiveSwitchRemote ==
    /\ pc = "fetch" /\ variant = "modes" /\ mode = "remote"
    /\ \E r \in CtxCmdResults(expired) :
         LET rbs == getRemoteBranches(ForEachRef(refsRemotes))
             cur == getCurrentBranch(head)
         IN  IF r # NoErr
             THEN /\ Listed(r, <<>>, <<>>)
                  /\ StopBeforePrompt(ExitStatusOf(r), ExitMessageOf(r))
             ELSE /\ Listed(NoErr, <<>>, rbs)
                  /\ IF Len(rbs) = 0
                     THEN StopBeforePrompt(0, {"noremote"})
                     ELSE CallPrompt(cur, RemoteOptions(rbs, cur))
    /\ UNCHANGED <<repo, mode, prompting, switching, switchRes>>

\* main.go:320-336: the second query runs only after the first succeeded,
\* under the same context.
fetchAllErr(r1, r2) == IF r1 # NoErr THEN r1 ELSE r2

\* main.go:234-274, up to the call of form.Run
interactiveSwitchAll ==
    /\ pc = "fetch" /\ variant = "modes" /\ mode = "all"
    /\ \E r1 \in CtxCmdResults(expired) :
       \E r2 \in CtxCmdResults(expired \/ r1 = KilledErr) :
         LET err == fetchAllErr(r1, r2)
             bs == getLocalBranches(ForEachRef(refsHeads))
             rbs == getRemoteBranches(ForEachRef(refsRemotes))
             cur == getCurrentBranch(head)
         IN  IF err # NoErr
             THEN /\ Listed(err, IF r1 = NoErr THEN bs ELSE <<>>, <<>>)
                  /\ StopBeforePrompt(ExitStatusOf(err), ExitMessageOf(err))
             ELSE /\ Listed(NoErr, bs, rbs)
                  /\ IF Len(bs) = 0 /\ Len(rbs) = 0
                     THEN StopBeforePrompt(0, {"nobranches"})
                     ELSE CallPrompt(cur, AllOptions(bs, rbs, cur))
    /\ UNCHANGED <<repo, mode, prompting, switching, switchRes>>

\* ---------------------------------------------------------------- prompt
\* Mutation: the error of form.Run is not checked.
FormReturns_ignoreAbort(i, resolved) ==
    /\ promptRes' = (IF i = 0 THEN "cancelled" ELSE "selected")
    /\ selected' = (IF i = 0 THEN <<>> ELSE options[i].value)
    /\ CallSwitch(resolved)

\* form.Run returns: the user picked option i, or aborted (i = 0).  The
\* picked value goes through resolve and on to switchBranch.
FormReturns(i, resolved) ==
    IF i = 0
    THEN /\ promptRes' = "cancelled"
         /\ Exit(0, {"cancelled"})
         /\ UNCHANGED <<selected, switching>>
    ELSE /\ promptRes' = "selected"
         /\ selected' = options[i].value
         /\ CallSwitch(resolved)

\* part_000:109-116
Initial_formRun ==
    /\ pc = "prompt" /\ variant = "initial"
    /\ \E i \in 0..Len(options) :
         FormReturns(i, IF i = 0 THEN <<>> ELSE options[i].value)
    /\ UNCHANGED <<repo, mode, listing, expired, switchRes>>

\* main.go:485-491
Ctx_formRun ==
    /\ pc = "prompt" /\ variant = "ctx"
    /\ \E i \in 0..Len(options) :
         FormReturns(i, IF i = 0 THEN <<>> ELSE options[i].value)
    /\ UNCHANGED <<repo, mode, listing, expired, switchRes>>

\* main.go:173-179
Local_formRun ==
    /\ pc = "prompt" /\ variant = "modes" /\ mode = "local"
    /\ \E i \in 0..Len(options) :
         FormReturns(i, IF i = 0 THEN <<>> ELSE options[i].value)
    /\ UNCHANGED <<repo, mode, listing, expired, switchRes>>

\* main.go:218-229
Remote_formRun ==
    /\ pc = "prompt" /\ variant = "modes" /\ mode = "remote"
    /\ \E i \in 0..Len(options) :
         FormReturns(i, IF i = 0 THEN <<>> ELSE StripRemote(options[i].value))
    /\ UNCHANGED <<repo, mode, listing, expired, switchRes>>

\* main.go:274-287
All_formRun ==
    /\ pc = "prompt" /\ variant = "modes" /\ mode = "all"
    /\ \E i \in 0..Len(options) :
         FormReturns(i, IF i = 0 THEN <<>> ELSE StripAll(options[i].value))
    /\ UNCHANGED <<repo, mode, listing, expired, switchRes>>

\* ---------------------------------------------------------------- switch
\* part_000:119-124 with its callers: the result of cmd.Run is dropped and
\* main returns.
Initial_switchStatus(r) == 0

Initial_switchBranch ==
    /\ pc = "switch" /\ variant = "initial"
    /\ \E r \in CmdResults :
         /\ switchRes' = r
         /\ Exit(Initial_switchStatus(r), {})
    /\ UNCHANGED <<repo, mode, listing, prompting, switching, expired>>

\* Status after `if err := switchBranch(...); err != nil { exitWithStatus(err) }`
switchStatus(r) == IF r = NoErr THEN 0 ELSE ExitStatusOf(r)

\* The command `git switch` is bound to ctx (main.go:511-516).
Ctx_switchResults(isExpired) == CtxCmdResults(isExpired)

\* main.go:511-516 with its callers (404-406, 491-493)
Ctx_switchBranch ==
    /\ pc = "switch" /\ variant = "ctx"
    /\ \E r \in Ctx_switchResults(expired) :
         /\ switchRes' = r
         /\ expired' = (expired \/ r = KilledErr)
         /\ Exit(switchStatus(r), IF r = NoErr THEN {} ELSE ExitMessageOf(r))
    /\ UNCHANGED <<repo, mode, listing, prompting, switching>>

\* The command `git switch` is not bound to ctx (main.go:338-343).
switchResults(isExpired) == CmdResults

\* Mutation: a failed switch is tried once more.
switchBranch_retry ==
    /\ pc = "switch" /\ variant = "modes"
    /\ \E r \in switchResults(expired) :
         /\ switchRes' = r
         /\ IF r # NoErr /\ switchCalls < 2
            THEN /\ switchCalls' = switchCalls + 1
                 /\ UNCHANGED <<pc, exitCode, messages, switchArg>>
            ELSE /\ Exit(switchStatus(r), IF r = NoErr THEN {} ELSE ExitMessageOf(r))
                 /\ UNCHANGED switching
    /\ UNCHANGED <<repo, mode, listing, prompting, expired>>

\* main.go:338-343 with its callers (59-61, 179-181, 229-231, 287-289)
switchBranch ==
    /\ pc = "switch" /\ variant = "modes"
    /\ \E r \in switchResults(expired) :
         /\ switchRes' = r
         /\ Exit(switchStatus(r), IF r = NoErr THEN {} ELSE ExitMessageOf(r))
    /\ UNCHANGED <<repo, mode, listing, prompting, switching, expired>>

\* ---------------------------------------------------------------- spec
Next ==
    \/ Initial_main
    \/ Ctx_main
    \/ Modes_main
    \/ DeadlineExpires
    \/ Initial_interactiveSwitch
    \/ Ctx_interactiveSwitch
    \/ interactiveSwitchLocal
    \/ interactiveSwitchRemote
    \/ interactiveSwitchAll
    \/ Initial_formRun
    \/ Ctx_formRun
    \/ Local_formRun
    \/ Remote_formRun
    \/ All_formRun
    \/ Initial_switchBranch
    \/ Ctx_switchBranch
    \/ switchBranch

Spec == Init /\ [][Next]_vars

\* ================================================================ claims
Interactive == mode \in {"local", "remote", "all"}
SwitchReturned == pc = "done" /\ switchCalls = 1
ListingFailed == listCalls = 1 /\ listRes # NoErr
TrueCurrent == head.kind = "branch"
Values(opts) == [i \in 1..Len(opts) |-> opts[i].value]
IsPinned(opt) == opt.label # opt.value
Unpinned(opts) == Values(SelectSeq(opts, LAMBDA o : ~IsPinned(o)))

\* The branch names of the model in ascending byte order, written out.
Ascending == <<HEAD, f_x, main_, origin, origin_HEAD, origin_f_x,
               origin_main, origin_prod, prod>>
Rank(name) == CHOOSE i \in 1..Len(Ascending) : Ascending[i] = name
IsAscending(names) ==
    \A i, j \in 1..Len(names) : i < j => Rank(names[i]) <= Rank(names[j])

\* C1: whenever `git switch` failed with exit code c, the process ends with
\* exit code c, and a run whose switch failed never ends with 0.
C1_SwitchFailurePropagates ==
    SwitchReturned =>
        /\ (switchRes.kind = "exit" => exitCode = switchRes.code)
        /\ (switchRes # NoErr => exitCode # 0)

\* C2: in every interactive mode a cancelled prompt ends the run with exit
\* code 0 and the informational message, and the switch is never invoked.
C2_CancelIsBenign ==
    (Interactive /\ promptRes = "cancelled") =>
        /\ pc = "done"
        /\ exitCode = 0
        /\ "cancelled" \in messages
        /\ "error" \notin messages
        /\ switchCalls = 0

C2_Witness ==
    /\ mode = "all" /\ promptRes = "cancelled" /\ pc = "done"
    /\ Len(options) >= 2

\* The case of C3: local-only mode, the listing holds the current branch
\* and at least one other, and the prompt has been called.
C3_Case ==
    /\ mode = "local" /\ promptCalls = 1
    /\ TrueCurrent
    /\ \E i \in 1..Len(branches) : branches[i] = head.name
    /\ \E i \in 1..Len(branches) : branches[i] # head.name

\* C3 as stated: in that case the current branch is not among the option
\* values and the switch is never called with it after a selection.
C3_CurrentNeverSelectable ==
    C3_Case =>
        /\ \A i \in 1..Len(options) : options[i].value # head.name
        /\ (promptRes = "selected" => switchArg # head.name)

\* C3 amended: in that case the current branch is never among the options
\* listed under their plain name; it is selectable only as the pinned first
\* entry of the variant with modes, and a selection reaches the switch with
\* the current branch only through that entry.
C3_CurrentOnlyPinned ==
    C3_Case =>
        /\ \A i \in 1..Len(options) :
              options[i].value = head.name =>
                 variant = "modes" /\ i = 1 /\ IsPinned(options[i])
        /\ (variant # "modes" =>
              \A i \in 1..Len(options) : options[i].value # head.name)
        /\ (promptRes = "selected" /\ switchArg = head.name => variant = "modes")

C3_Witness ==
    /\ C3_Case /\ variant = "modes" /\ promptRes = "selected"
    /\ switchArg # head.name

\* The case of C4: local-only mode, the listing succeeded with exactly one
\* branch, the current one.
C4_Case ==
    /\ mode = "local" /\ listCalls = 1 /\ listRes = NoErr
    /\ TrueCurrent
    /\ branches = <<head.name>>

\* C4 as stated: in that case the run reports the condition and ends with
\* exit code 0, and neither the prompt nor the switch is ever invoked.
C4_OnlyCurrentExitsWithoutPrompt ==
    C4_Case =>
        /\ pc = "done" /\ exitCode = 0
        /\ "onlyone" \in messages
        /\ promptCalls = 0 /\ switchCalls = 0

\* C4 amended: in that case the variants that build the options by
\* exclusion report the condition and end with exit code 0 without prompt or
\* switch; the variant with modes calls the prompt with the pinned current
\* branch as its only option, so a switch can only target the current branch.
C4_OnlyCurrentByVariant ==
    C4_Case =>
        IF variant = "modes"
        THEN /\ promptCalls = 1
             /\ Len(options) = 1
             /\ options[1].value = head.name /\ IsPinned(options[1])
             /\ "onlyone" \notin messages
             /\ (switchCalls = 1 => switchArg = head.name)
        ELSE /\ pc = "done" /\ exitCode = 0
             /\ "onlyone" \in messages
             /\ promptCalls = 0 /\ switchCalls = 0

C4_Witness == C4_Case /\ variant = "ctx" /\ pc = "done"

\* C5: in remote and combined modes, selecting origin/<name> invokes the
\* switch with exactly <name>, also when <name> contains '/'.
C5_RemotePrefixStripped ==
    \A n \in LocalNames :
        (/\ mode \in {"remote", "all"}
         /\ promptRes = "selected"
         /\ selected = origin \o <<"/">> \o n)
        => (switchCalls = 1 /\ switchArg = n)

C5_Witness ==
    /\ mode = "all" /\ promptRes = "selected"
    /\ selected = origin_f_x /\ switchArg = f_x

\* C6 as stated: in every interactive mode the options handed to the prompt
\* are in ascending order once the pinned entry is set aside.
C6_OptionsSorted ==
    (Interactive /\ promptCalls = 1) => IsAscending(Unpinned(options))

\* C6 amended: in local and remote modes the options are in ascending order
\* once the pinned entry is set aside; in combined mode the local entries
\* come first in ascending order, followed by the remote entries in
\* ascending order.
C6_OptionsSortedPerGroup ==
    (Interactive /\ promptCalls = 1) =>
        LET vals == Unpinned(options)
            isLocal(v) == \E i \in 1..Len(refsHeads) : refsHeads[i] = v
            locals == SelectSeq(vals, isLocal)
            remotes == SelectSeq(vals, LAMBDA v : ~isLocal(v))
        IN  /\ IsAscending(locals)
            /\ IsAscending(remotes)
            /\ vals = locals \o remotes
            /\ (mode = "local" => remotes = <<>>)
            /\ (mode = "remote" => locals = <<>>)

C6_Witness ==
    /\ mode = "all" /\ promptCalls = 1
    /\ refsHeads = <<prod, main_>>
    /\ refsRemotes = <<origin_prod, origin_main>>
    /\ ~IsAscending(Unpinned(options))

\* C7: the remote branch list, and the options built from it, hold no
\* symbolic remote HEAD: nothing ending in "/HEAD", nothing without '/'.
C7_NoRemoteHead ==
    /\ \A i \in 1..Len(remoteBranches) :
          /\ remoteBranches[i] \notin {origin_HEAD, origin}
          /\ \E k \in 1..Len(remoteBranches[i]) : remoteBranches[i][k] = "/"
          /\ Len(remoteBranches[i]) >= 5 =>
                SubSeq(remoteBranches[i], Len(remoteBranches[i]) - 4,
                       Len(remoteBranches[i])) # <<"/", "H", "E", "A", "D">>
    /\ (mode \in {"remote", "all"} =>
          \A i \in 1..Len(options) : options[i].value \notin {origin_HEAD, origin})

C7_Witness ==
    /\ mode = "remote" /\ promptCalls = 1
    /\ \E i \in 1..Len(refsRemotes) : refsRemotes[i] = origin_HEAD
    /\ Len(remoteBranches) = 1

\* C8 as stated: a failed listing ends the run with exit code 1, without
\* prompt and without switch.
C8_ListingFailureExitsOne ==
    ListingFailed =>
        /\ pc = "done" /\ exitCode = 1
        /\ promptCalls = 0 /\ switchCalls = 0

\* C8 amended: a failed listing ends the run with a non-zero exit code,
\* without prompt and without switch: the listing tool's own exit code when
\* it exited with one (1 regardless in part_000), and 1 when the failure
\* carries no exit code.
C8_ListingFailureExitsNonZero ==
    ListingFailed =>
        /\ pc = "done" /\ exitCode # 0
        /\ promptCalls = 0 /\ switchCalls = 0
        /\ (variant = "initial" => exitCode = 1)
        /\ (variant # "initial" /\ listRes.kind = "exit" => exitCode = listRes.code)
        /\ (listRes.kind \in {"start", "ctx", "nocurrent"} => exitCode = 1)

C8_Witness ==
    /\ ListingFailed /\ variant = "modes" /\ mode = "all"
    /\ listRes = ExitErr(128) /\ exitCode = 128

\* C9: a run invokes the switch at most once and lists at most once (never
\* in direct mode); in interactive modes a switch comes only after a
\* successful listing and a selection.
C9_AtMostOnce ==
    /\ switchCalls <= 1
    /\ listCalls <= 1
    /\ (mode = "direct" => listCalls = 0 /\ promptCalls = 0)
    /\ (Interactive /\ switchCalls >= 1 =>
          listCalls = 1 /\ listRes = NoErr /\ promptRes = "selected")
    /\ (ListingFailed => switchCalls = 0)

C9_Witness ==
    /\ Interactive /\ SwitchReturned /\ switchRes = ExitErr(1)
    /\ listCalls = 1

\* C10: the deadline can only fail the listing: it never makes the switch
\* invocation fail or be cancelled, however late the prompt returns.
C10_DeadlineSparesSwitch ==
    switchCalls = 1 => switchRes \notin {CtxErr, KilledErr}

\* The selection of C11: in remote or combined mode the prompt returned an
\* entry that is a local branch, either listed as such or pinned as current.
C11_LocalSelected ==
    /\ mode \in {"remote", "all"}
    /\ promptRes = "selected"
    /\ \/ \E i \in 1..Len(refsHeads) : refsHeads[i] = selected
       \/ (TrueCurrent /\ selected = head.name)

\* C11: in remote and combined modes a selected local branch, or the pinned
\* current branch, reaches the switch under exactly its own name, also when
\* the name contains '/'.
C11_LocalSelectionUnchanged ==
    C11_LocalSelected => (switchCalls = 1 /\ switchArg = selected)

====
